---- MODULE Spec2Model ----
(***************************************************************************)
(* Model of app/devserver.py: a static file server for the dist directory  *)
(* that adds the two cross-origin isolation headers to every header block. *)
(*                                                                         *)
(* devserver.py is eighteen lines: it changes the working directory to     *)
(* <program dir>/../dist (lines 6-8), overrides end_headers of             *)
(* SimpleHTTPRequestHandler (lines 10-14), prints a message (line 17) and  *)
(* calls http.server.test(RequestHandler, HTTPServer, port=8000) (line     *)
(* 18).  Everything else the server does is the behaviour of the classes   *)
(* those lines name (http.server and socketserver of CPython 3.11); the    *)
(* operators below that carry the names of their methods are translations  *)
(* of those methods, reached through line 10 (the handler) and line 18     *)
(* (the server).                                                           *)
(***************************************************************************)
EXTENDS Integers, Sequences, FiniteSets, TLC

VARIABLES
    pc,          \* position of the main program: "chdir", "main", "test", "serving", "exited"
    cwd,         \* the process's current working directory (absolute path)
    rootKind,    \* what <program dir>/../dist is on disk: "dir", "file", "missing"
    unreadable,  \* the files the server process has no permission to read
    portFree,    \* whether TCP port 8000 is free when the program starts
    stdout,      \* the messages written to standard output, in order
    listener,    \* the server socket: "none", "listening", "closed_unbound", "closed"
    exitStatus,  \* -1 while the process runs, else its exit status
    nConn,       \* connections clients have made to the listening socket
    nAccepted,   \* connections the server has taken from the listen queue
    handler,     \* connection id -> the RequestHandler instance serving it
    errSeen      \* some finished connection was answered with an error

vars == <<pc, cwd, rootKind, unreadable, portFree, stdout, listener, exitStatus,
          nConn, nAccepted, handler, errSeen>>

----------------------------------------------------------------------------
(* Bounds of the model *)

\* connections made during a run
MaxConns == 2
\* segments of a request path in the full server specification
MaxPathLen == 2

\* the path specification sends longer paths to one connection
DeepPathLen == MaxPathLen + 2

----------------------------------------------------------------------------
(* The file system *)

\* os.path.dirname(os.path.abspath(__file__))
current_dir == <<"srv", "app">>

\* variant of dist_path: the 'dist' component left out of the join
dist_path_parent_only == current_dir \o <<"..">>

\* os.path.join(current_dir, '..', 'dist')
dist_path == current_dir \o <<"..", "dist">>

\* the directory the program is launched from
LaunchDir == <<"home">>

\* the root directory the specification names: <program_directory>/../dist
RootDir == <<"srv", "dist">>

Dirs ==
    {<<>>, <<"srv">>, <<"srv", "app">>, <<"home">>}
    \cup (IF rootKind = "dir" THEN {RootDir, RootDir \o <<"d">>} ELSE {})

Files ==
    {<<"srv", "app", "devserver.py">>, <<"srv", "secret">>, <<"home", "a">>}
    \cup (IF rootKind = "dir"
          THEN {RootDir \o <<"a">>, RootDir \o <<"d", "index.html">>}
          ELSE IF rootKind = "file" THEN {RootDir} ELSE {})

\* the bytes of a file: every file's contents differ
Contents(p) == <<"bytes of">> \o p

NoEnt == <<"<ENOENT>">>

\* the kernel's path walk from / : ".." is the parent, "." the directory itself
RECURSIVE Walk(_, _)
Walk(at, rest) ==
    IF rest = <<>> THEN at
    ELSE IF at \notin Dirs THEN NoEnt
    ELSE LET comp == Head(rest) IN
         IF comp = "." THEN Walk(at, Tail(rest))
         ELSE IF comp = ".."
              THEN Walk(IF at = <<>> THEN at ELSE SubSeq(at, 1, Len(at) - 1), Tail(rest))
         ELSE Walk(Append(at, comp), Tail(rest))

\* a file-system path: its components and whether it ends with "/"
FsPath(segs, slash) == [segs |-> segs, slash |-> slash]

\* the object a path names, NoEnt when there is none
RealPath(p) ==
    LET r == Walk(<<>>, p.segs) IN
    IF r \in Dirs THEN r
    ELSE IF r \in Files /\ ~p.slash THEN r
    ELSE NoEnt

isdir(p) == RealPath(p) \in Dirs
isfile(p) == RealPath(p) \in Files

\* open(path, 'rb') succeeds: OSError when nothing is there, when a component
\* is no directory, or when permission is denied
CanOpen(p) == isfile(p) /\ RealPath(p) \notin unreadable

IsPrefix(s, t) == Len(s) <= Len(t) /\ SubSeq(t, 1, Len(s)) = s

----------------------------------------------------------------------------
(* Request paths *)

\* the path segments requests are built from; "%2e%2e" is ".." percent-encoded
Segments == {"a", "d", "index.html", "..", ".", "%2e%2e", "secret"}

SeqsUpTo(S, n) == UNION {[1..k -> S] : k \in 0..n}

\* A request path is the string  ["/"] seg "/" seg ... ["/"] : abs says it
\* starts with "/", slash that a "/" follows the last segment.
UrlPaths(n) ==
    {p \in [abs : BOOLEAN, segs : SeqsUpTo(Segments, n), slash : BOOLEAN] :
        /\ p.segs = <<>> => (p.abs /\ ~p.slash)}

\* path.endswith('/')
EndsWithSlash(p) == p.slash \/ (p.abs /\ p.segs = <<>>)

unquote_segment(s) == IF s = "%2e%2e" THEN ".." ELSE s

\* urllib.parse.unquote
unquote(p) == [p EXCEPT !.segs = [i \in 1..Len(p.segs) |-> unquote_segment(p.segs[i])]]

\* the loop of posixpath.normpath over the components of the path
RECURSIVE normcomps(_, _, _)
normcomps(comps, initial_slashes, new_comps) ==
    IF comps = <<>> THEN new_comps
    ELSE LET comp == Head(comps) IN
         IF comp \in {"", "."} THEN normcomps(Tail(comps), initial_slashes, new_comps)
         ELSE IF \/ comp # ".."
                 \/ (~initial_slashes /\ new_comps = <<>>)
                 \/ (new_comps # <<>> /\ new_comps[Len(new_comps)] = "..")
              THEN normcomps(Tail(comps), initial_slashes, Append(new_comps, comp))
         ELSE IF new_comps # <<>>
              THEN normcomps(Tail(comps), initial_slashes,
                             SubSeq(new_comps, 1, Len(new_comps) - 1))
         ELSE normcomps(Tail(comps), initial_slashes, new_comps)

\* posixpath.normpath: the result never ends with "/", and is "." when empty
normpath(p) ==
    LET comps == normcomps(p.segs, p.abs, <<>>) IN
    [abs |-> p.abs,
     segs |-> IF ~p.abs /\ comps = <<>> THEN <<".">> ELSE comps,
     slash |-> FALSE]

\* variant of SimpleName: no word is skipped
AnyName(word) == TRUE

\* the filter of translate_path's loop: os.curdir and os.pardir are skipped
SimpleName(word) == word \notin {".", ".."}

\* SimpleHTTPRequestHandler.translate_path, from directory `directory`
translate_path(directory, path) ==
    LET trailing_slash == EndsWithSlash(path)
        words == normpath(unquote(path)).segs
    IN FsPath(directory \o SelectSeq(words, SimpleName), trailing_slash)

\* SimpleHTTPRequestHandler.guess_type, by the extension of the last component
guess_type(p) ==
    IF p.segs # <<>> /\ p.segs[Len(p.segs)] = "index.html"
    THEN "text/html" ELSE "application/octet-stream"

----------------------------------------------------------------------------
(* What is written to a connection *)

\* test() sets HandlerClass.protocol_version to its default, protocol="HTTP/1.0"
protocol_version == "HTTP/1.0"

\* One item of the byte stream written to the client: the status line, a
\* header line, the blank line that ends the header section, or a body.
StatusLine(code, message) ==
    [key |-> protocol_version, value |-> message, num |-> code, data |-> <<>>]
HeaderLine(keyword, value) ==
    [key |-> keyword, value |-> value, num |-> 0, data |-> <<>>]
BlankLine == [key |-> "", value |-> "", num |-> 0, data |-> <<>>]
Body(bytes) == [key |-> "<body>", value |-> "", num |-> Len(bytes), data |-> bytes]

IsStatusLine(l) == l.key = protocol_version
IsBody(l) == l.key = "<body>"
IsHeader(l) == ~IsStatusLine(l) /\ ~IsBody(l) /\ l # BlankLine

OpenerPolicy == HeaderLine("Cross-Origin-Opener-Policy", "same-origin")
EmbedderPolicy == HeaderLine("Cross-Origin-Embedder-Policy", "require-corp")

----------------------------------------------------------------------------
(* The request handler: one instance per connection *)

\* the probe path of the malformed requests
ProbePath == [abs |-> TRUE, segs |-> <<"a">>, slash |-> FALSE]

\* What a client sends on a connection.  shape: "line" is a request line
\* `command path [junk] [version]` followed by headers, "oneword" a request
\* line of one word, "blank" an empty line, "eof" a connection closed before
\* any byte, "toolong" a request line of more than 65536 bytes.  cond is the
\* conditional header of the request: "unmodified" is an If-Modified-Since
\* (and no If-None-Match) that is not older than the file, "modified" one
\* that is older.  hdrs is "too_large" when a header line exceeds the limit.
NoRequest ==
    [shape |-> "none", command |-> "", path |-> ProbePath, version |-> "",
     extra |-> 0, cond |-> "none", hdrs |-> "ok"]

\* RequestHandler(request, client_address, server): SimpleHTTPRequestHandler's
\* __init__ takes directory = os.getcwd(); nothing has been read or written.
NewHandler(directory) ==
    [directory |-> directory,
     request_version |-> "",
     command |-> "",
     request |-> NoRequest,
     close_connection |-> TRUE,
     headers_buffer |-> <<>>,
     wfile |-> <<>>,
     status |-> 0,
     opened |-> NoEnt,
     done |-> FALSE]

\* BaseHTTPRequestHandler.send_response_only
send_response_only(h, code, message) ==
    IF h.request_version # "HTTP/0.9"
    THEN [h EXCEPT !.headers_buffer = Append(@, StatusLine(code, message))]
    ELSE h

\* BaseHTTPRequestHandler.send_header
send_header(h, keyword, value) ==
    LET h1 == IF h.request_version # "HTTP/0.9"
              THEN [h EXCEPT !.headers_buffer = Append(@, HeaderLine(keyword, value))]
              ELSE h
    IN IF keyword = "Connection" /\ value = "close"
       THEN [h1 EXCEPT !.close_connection = TRUE]
       ELSE IF keyword = "Connection" /\ value = "keep-alive"
       THEN [h1 EXCEPT !.close_connection = FALSE]
       ELSE h1

\* BaseHTTPRequestHandler.flush_headers
flush_headers(h) ==
    [h EXCEPT !.wfile = @ \o h.headers_buffer, !.headers_buffer = <<>>]

\* SimpleHTTPRequestHandler.end_headers(self), the call of line 14
base_end_headers(h) ==
    IF h.request_version # "HTTP/0.9"
    THEN flush_headers([h EXCEPT !.headers_buffer = Append(@, BlankLine)])
    ELSE h

\* variant of end_headers: lines 12 and 13 exchanged
end_headers_swapped(h) ==
    base_end_headers(
        send_header(
            send_header(h, "Cross-Origin-Embedder-Policy", "require-corp"),
            "Cross-Origin-Opener-Policy", "same-origin"))

\* RequestHandler.end_headers
end_headers(h) ==
    base_end_headers(
        send_header(
            send_header(h, "Cross-Origin-Opener-Policy", "same-origin"),
            "Cross-Origin-Embedder-Policy", "require-corp"))

\* BaseHTTPRequestHandler.send_response: log_request, the status line, Server, Date
send_response(h, code, message) ==
    send_header(
        send_header(
            send_response_only([h EXCEPT !.status = code], code, message),
            "Server", "SimpleHTTP"),
        "Date", "now")

\* the HTML page send_error writes after the headers
ErrorPage(code, message) == <<"error page", ToString(code), message>>

\* BaseHTTPRequestHandler.send_error
send_error(h, code, message) ==
    LET h1 == send_header(send_response(h, code, message), "Connection", "close")
        has_body == code >= 200 /\ code \notin {204, 205, 304}
        body == ErrorPage(code, message)
        h2 == IF has_body
              THEN send_header(
                       send_header(h1, "Content-Type", "text/html;charset=utf-8"),
                       "Content-Length", ToString(Len(body)))
              ELSE h1
        h3 == end_headers(h2)
    IN IF h.command # "HEAD" /\ has_body
       THEN [h3 EXCEPT !.wfile = Append(@, Body(body))]
       ELSE h3

\* the words of the request line, requestline.split()
Words(req) ==
    IF req.shape = "oneword" THEN <<req.command>>
    ELSE IF req.shape # "line" THEN <<>>
    ELSE <<req.command, "<path>">>
         \o (IF req.extra = 1 THEN <<"junk">> ELSE <<>>)
         \o (IF req.version # "" THEN <<req.version>> ELSE <<>>)

\* the version number parse_request reads from the last word, <<>> when the
\* word is no "HTTP/<digits>.<digits>"
version_number(version) ==
    CASE version = "HTTP/1.0" -> <<1, 0>>
      [] version = "HTTP/1.1" -> <<1, 1>>
      [] version = "HTTP/2.0" -> <<2, 0>>
      [] OTHER -> <<>>

\* tuple comparison version_number >= (major, minor)
VersionAtLeast(vn, major, minor) ==
    vn[1] > major \/ (vn[1] = major /\ vn[2] >= minor)

\* self.protocol_version >= "HTTP/1.1"
ProtocolAtLeast11 == protocol_version \notin {"HTTP/0.9", "HTTP/1.0"}

Parsed(ok, h) == [ok |-> ok, h |-> h]

\* BaseHTTPRequestHandler.parse_request
parse_request(h, req) ==
    LET h0 == [h EXCEPT !.command = "", !.request_version = "HTTP/0.9",
                        !.close_connection = TRUE]
        words == Words(req)
        version == words[Len(words)]
        vn == version_number(version)
        h1 == IF Len(words) >= 3
              THEN [h0 EXCEPT !.request_version = version,
                              !.close_connection =
                                  ~(VersionAtLeast(vn, 1, 1) /\ ProtocolAtLeast11)]
              ELSE h0
        h2 == IF Len(words) = 2 THEN [h1 EXCEPT !.close_connection = TRUE] ELSE h1
        h3 == [h2 EXCEPT !.command = words[1]]
    IN IF Len(words) = 0 THEN Parsed(FALSE, h0)
       ELSE IF Len(words) >= 3 /\ vn = <<>>
       THEN Parsed(FALSE, send_error(h0, 400, "Bad request version"))
       ELSE IF Len(words) >= 3 /\ VersionAtLeast(vn, 2, 0)
       THEN Parsed(FALSE, send_error(h0, 505, "Invalid HTTP version"))
       ELSE IF ~(2 <= Len(words) /\ Len(words) <= 3)
       THEN Parsed(FALSE, send_error(h1, 400, "Bad request syntax"))
       ELSE IF Len(words) = 2 /\ words[1] # "GET"
       THEN Parsed(FALSE, send_error(h2, 400, "Bad HTTP/0.9 request type"))
       ELSE IF req.hdrs = "too_large"
       THEN Parsed(FALSE, send_error(h3, 431, "Line too long"))
       ELSE Parsed(TRUE, h3)

\* the body of a directory listing names the directory listed
Listing(dir) == <<"listing of">> \o dir

\* what send_head returns beside the handler: a file object, or None
NoFile == [ok |-> FALSE, bytes |-> <<>>]
FileObject(bytes) == [ok |-> TRUE, bytes |-> bytes]
Head_(h, f) == [h |-> h, f |-> f]

\* SimpleHTTPRequestHandler.list_directory
list_directory(h, path) ==
    LET encoded == Listing(RealPath(path))
        h1 == send_header(
                  send_header(send_response(h, 200, "OK"),
                              "Content-type", "text/html; charset=utf-8"),
                  "Content-Length", ToString(Len(encoded)))
    IN Head_(end_headers(h1), FileObject(encoded))

\* the part of send_head that serves the regular file `path`
send_file_head(h, req, path) ==
    IF path.slash
    THEN Head_(send_error(h, 404, "File not found"), NoFile)
    ELSE IF ~CanOpen(path)
    THEN Head_(send_error(h, 404, "File not found"), NoFile)
    ELSE LET f == RealPath(path)
             h1 == [h EXCEPT !.opened = f]
         IN IF req.cond = "unmodified"
            THEN Head_(end_headers(send_response(h1, 304, "Not Modified")), NoFile)
            ELSE Head_(
                     end_headers(
                         send_header(
                             send_header(
                                 send_header(send_response(h1, 200, "OK"),
                                             "Content-type", guess_type(path)),
                                 "Content-Length", ToString(Len(Contents(f)))),
                             "Last-Modified", "mtime")),
                     FileObject(Contents(f)))

\* SimpleHTTPRequestHandler.send_head
send_head(h, req) ==
    LET path == translate_path(h.directory, req.path)
        index == FsPath(path.segs \o <<"index.html">>, FALSE)
    IN IF isdir(path)
       THEN IF ~EndsWithSlash(req.path)
            THEN Head_(
                     end_headers(
                         send_header(
                             send_header(send_response(h, 301, "Moved Permanently"),
                                         "Location", "<path>/"),
                             "Content-Length", "0")),
                     NoFile)
            ELSE IF isfile(index) THEN send_file_head(h, req, index)
            ELSE list_directory(h, path)
       ELSE send_file_head(h, req, path)

\* SimpleHTTPRequestHandler.do_GET: send_head, then copyfile
do_GET(h, req) ==
    LET r == send_head(h, req) IN
    IF r.f.ok THEN [r.h EXCEPT !.wfile = Append(@, Body(r.f.bytes))] ELSE r.h

\* SimpleHTTPRequestHandler.do_HEAD
do_HEAD(h, req) == send_head(h, req).h

\* BaseHTTPRequestHandler.handle_one_request
handle_one_request(h, req) ==
    IF req.shape = "toolong"
    THEN send_error([h EXCEPT !.request_version = "", !.command = ""],
                    414, "Request-URI Too Long")
    ELSE IF req.shape = "eof" THEN [h EXCEPT !.close_connection = TRUE]
    ELSE LET p == parse_request(h, req) IN
         IF ~p.ok THEN p.h
         ELSE IF p.h.command = "GET" THEN do_GET(p.h, req)
         ELSE IF p.h.command = "HEAD" THEN do_HEAD(p.h, req)
         ELSE send_error(p.h, 501, "Unsupported method")

\* BaseHTTPRequestHandler.handle, one turn of its loop: the handler is done
\* with the connection when close_connection is set
handle(h, req) ==
    LET h1 == handle_one_request([h EXCEPT !.request = req], req)
    IN [h1 EXCEPT !.done = h1.close_connection]

----------------------------------------------------------------------------
(* The requests clients send *)

Conds == {"none", "unmodified", "modified"}

\* requests with a well-formed request line, over every path
LineRequests(paths) ==
    [shape : {"line"}, command : {"GET", "HEAD"}, path : paths,
     version : {"HTTP/1.0", "HTTP/1.1"}, extra : {0}, cond : Conds, hdrs : {"ok"}]
    \cup
    [shape : {"line"}, command : {"GET"}, path : paths,
     version : {""}, extra : {0}, cond : {"none"}, hdrs : {"ok"}]

\* request lines of every shape, for one path
ProbeRequests ==
    [shape : {"line"}, command : {"GET", "HEAD", "POST"}, path : {ProbePath},
     version : {"", "HTTP/1.0", "HTTP/2.0", "FOO/1.0"}, extra : {0, 1},
     cond : {"none"}, hdrs : {"ok", "too_large"}]
    \cup
    [shape : {"oneword", "blank", "eof", "toolong"}, command : {"GET"},
     path : {ProbePath}, version : {""}, extra : {0}, cond : {"none"},
     hdrs : {"ok"}]

Requests == LineRequests(UrlPaths(MaxPathLen)) \cup ProbeRequests

DeepRequests ==
    [shape : {"line"}, command : {"GET"}, path : UrlPaths(DeepPathLen),
     version : {"HTTP/1.0"}, extra : {0}, cond : {"none"}, hdrs : {"ok"}]

----------------------------------------------------------------------------
(* The program *)

StartupMessage == "===> Open your browser at http://localhost:8000/"
ServingMessage == "Serving HTTP on 0.0.0.0 port 8000 (http://0.0.0.0:8000/) ..."
InterruptMessage == "Keyboard interrupt received, exiting."

active == DOMAIN handler
NoHandlers == [c \in {} |-> NewHandler(<<>>)]

\* an error response: send_error was called for the request
IsErrorResponse(h) == h.status >= 400

Init ==
    /\ pc = "chdir"
    /\ cwd = LaunchDir
    /\ rootKind \in {"dir", "file", "missing"}
    /\ unreadable \in {{}, {RootDir \o <<"a">>}}
    /\ portFree \in BOOLEAN
    /\ stdout = <<>>
    /\ listener = "none"
    /\ exitStatus = -1
    /\ nConn = 0
    /\ nAccepted = 0
    /\ handler = NoHandlers
    /\ errSeen = FALSE

\* variant of Chdir: the exception of os.chdir is swallowed
ChdirIgnoringFailure ==
    /\ pc = "chdir"
    /\ cwd' = IF isdir(FsPath(dist_path, FALSE))
              THEN RealPath(FsPath(dist_path, FALSE)) ELSE cwd
    /\ pc' = "main"
    /\ UNCHANGED <<rootKind, unreadable, portFree, stdout, listener, exitStatus, nConn,
                   nAccepted, handler, errSeen>>

\* line 8, os.chdir(dist_path): FileNotFoundError or NotADirectoryError ends
\* the program with a traceback and exit status 1
Chdir ==
    /\ pc = "chdir"
    /\ IF isdir(FsPath(dist_path, FALSE))
       THEN /\ cwd' = RealPath(FsPath(dist_path, FALSE))
            /\ pc' = "main"
            /\ UNCHANGED exitStatus
       ELSE /\ pc' = "exited"
            /\ exitStatus' = 1
            /\ UNCHANGED cwd
    /\ UNCHANGED <<rootKind, unreadable, portFree, stdout, listener, nConn, nAccepted,
                   handler, errSeen>>

\* line 17, print(...)
PrintMessage ==
    /\ pc = "main"
    /\ stdout' = Append(stdout, StartupMessage)
    /\ pc' = "test"
    /\ UNCHANGED <<cwd, rootKind, unreadable, portFree, listener, exitStatus, nConn,
                   nAccepted, handler, errSeen>>

\* variant of ServerInit: the failure of bind is not noticed
ServerInitKeepingSocket ==
    /\ pc = "test"
    /\ listener' = "listening"
    /\ stdout' = Append(stdout, ServingMessage)
    /\ pc' = "serving"
    /\ UNCHANGED <<cwd, rootKind, unreadable, portFree, exitStatus, nConn, nAccepted,
                   handler, errSeen>>

\* line 18, test(RequestHandler, HTTPServer, port=8000) up to serve_forever:
\* HTTPServer(addr, HandlerClass) binds and listens, or closes its socket and
\* raises OSError, which ends the program with exit status 1
ServerInit ==
    /\ pc = "test"
    /\ IF portFree
       THEN /\ listener' = "listening"
            /\ stdout' = Append(stdout, ServingMessage)
            /\ pc' = "serving"
            /\ UNCHANGED exitStatus
       ELSE /\ listener' = "closed_unbound"
            /\ pc' = "exited"
            /\ exitStatus' = 1
            /\ UNCHANGED stdout
    /\ UNCHANGED <<cwd, rootKind, unreadable, portFree, nConn, nAccepted, handler,
                   errSeen>>

\* a client connects to the listening socket; the kernel queues the connection
Connect ==
    /\ listener = "listening"
    /\ nConn < MaxConns
    /\ nConn' = nConn + 1
    /\ UNCHANGED <<pc, cwd, rootKind, unreadable, portFree, stdout, listener, exitStatus,
                   nAccepted, handler, errSeen>>

\* variant of CanAccept: ThreadingHTTPServer, one thread per connection
ThreadedCanAccept(handlers) == TRUE

\* HTTPServer.process_request runs finish_request in the serving loop itself:
\* the loop takes the next connection only when no handler is running
CanAccept(handlers) == handlers = {}

\* serve_forever: get_request, then finish_request constructs the handler
Accept ==
    /\ pc = "serving"
    /\ CanAccept(active)
    /\ nAccepted < nConn
    /\ nAccepted' = nAccepted + 1
    /\ handler' = [c \in active \cup {nAccepted + 1} |->
                     IF c \in active THEN handler[c] ELSE NewHandler(cwd)]
    /\ UNCHANGED <<pc, cwd, rootKind, unreadable, portFree, stdout, listener, exitStatus,
                   nConn, errSeen>>

\* the handler reads a request from its connection and answers it
HandleRequest(c, requests) ==
    /\ pc = "serving"
    /\ c \in active
    /\ ~handler[c].done
    /\ \E req \in requests : handler' = [handler EXCEPT ![c] = handle(@, req)]
    /\ UNCHANGED <<pc, cwd, rootKind, unreadable, portFree, stdout, listener, exitStatus,
                   nConn, nAccepted, errSeen>>

\* variant of AfterRequest: an error answer ends the serving loop
ExitOnError(h) == IF IsErrorResponse(h) THEN "exited" ELSE "serving"

\* where the main program is after a handler has finished: in serve_forever,
\* whatever the handler answered
AfterRequest(h) == "serving"

\* shutdown_request: the connection is closed and the handler dropped
ShutdownRequest(c) ==
    /\ pc = "serving"
    /\ c \in active
    /\ handler[c].done
    /\ handler' = [d \in active \ {c} |-> handler[d]]
    /\ errSeen' = (errSeen \/ IsErrorResponse(handler[c]))
    /\ pc' = AfterRequest(handler[c])
    /\ exitStatus' = IF pc' = "exited" THEN 1 ELSE exitStatus
    /\ listener' = IF pc' = "exited" THEN "closed" ELSE listener
    /\ UNCHANGED <<cwd, rootKind, unreadable, portFree, stdout, nConn, nAccepted>>

\* KeyboardInterrupt in serve_forever: test() prints and calls sys.exit(0);
\* leaving the with block closes the server socket
Interrupt ==
    /\ pc = "serving"
    /\ stdout' = Append(stdout, InterruptMessage)
    /\ listener' = "closed"
    /\ handler' = NoHandlers
    /\ pc' = "exited"
    /\ exitStatus' = 0
    /\ UNCHANGED <<cwd, rootKind, unreadable, portFree, nConn, nAccepted, errSeen>>

Next ==
    \/ Chdir
    \/ PrintMessage
    \/ ServerInit
    \/ Connect
    \/ Accept
    \/ \E c \in active : HandleRequest(c, Requests)
    \/ \E c \in active : ShutdownRequest(c)
    \/ Interrupt

Spec == Init /\ [][Next]_vars

\* The path specification: the server is up with one connection accepted (the
\* state Chdir, PrintMessage, ServerInit, Connect and Accept lead to), and the
\* client sends a GET for a path of up to DeepPathLen segments.
InitPath ==
    /\ pc = "serving"
    /\ rootKind = "dir"
    /\ unreadable = {}
    /\ portFree = TRUE
    /\ cwd = RealPath(FsPath(dist_path, FALSE))
    /\ stdout = <<StartupMessage, ServingMessage>>
    /\ listener = "listening"
    /\ exitStatus = -1
    /\ nConn = 1
    /\ nAccepted = 1
    /\ handler = [c \in {1} |-> NewHandler(cwd)]
    /\ errSeen = FALSE

NextPath ==
    \/ HandleRequest(1, DeepRequests)
    \/ ShutdownRequest(1)

SpecPath == InitPath /\ [][NextPath]_vars

----------------------------------------------------------------------------
(* What the claims speak of *)

\* the handlers that have answered their request
Answered == {c \in active : handler[c].done}

\* a response was emitted: something was written to the connection
Emitted(h) == h.wfile # <<>>

\* the response starts with a status line, so it has a header section
HasHeaderBlock(h) == h.wfile # <<>> /\ IsStatusLine(h.wfile[1])

Count(wfile, line) == Cardinality({i \in DOMAIN wfile : wfile[i] = line})

Bodies(h) == {h.wfile[i].data : i \in {j \in DOMAIN h.wfile : IsBody(h.wfile[j])}}

\* a GET request the server parses: a request line `GET path [HTTP/1.x]`
WellFormedGET(req) ==
    /\ req.shape = "line"
    /\ req.command = "GET"
    /\ req.extra = 0
    /\ req.version \in {"", "HTTP/1.0", "HTTP/1.1"}
    /\ req.hdrs = "ok"

\* what a request path names under the root directory of the specification
Target(req) == translate_path(RootDir, req.path)

UnderRoot(p) == IsPrefix(RootDir, p)

OutsideContents == {Contents(f) : f \in {g \in Files : ~UnderRoot(g)}}

----------------------------------------------------------------------------
(* C1 *)

\* C1, as stated: every response the server emits, whatever its status,
\* contains Cross-Origin-Opener-Policy: same-origin exactly once and
\* Cross-Origin-Embedder-Policy: require-corp exactly once.
C1_EveryResponseHasBothHeaders ==
    \A c \in Answered :
        Emitted(handler[c]) =>
            /\ Count(handler[c].wfile, OpenerPolicy) = 1
            /\ Count(handler[c].wfile, EmbedderPolicy) = 1

----------------------------------------------------------------------------
(* C2 *)

\* C2: when <program_directory>/../dist is missing or is no directory, the
\* program never binds the listening socket, never accepts or serves a
\* request, never leaves the launch directory, and once it has run line 8 it
\* has exited with a non-zero status.
C2_MissingRootFailsBeforeBind ==
    rootKind # "dir" =>
        /\ listener = "none"
        /\ nConn = 0 /\ nAccepted = 0 /\ active = {}
        /\ cwd = LaunchDir
        /\ pc \in {"chdir", "exited"}
        /\ (pc = "exited" => exitStatus # 0 /\ exitStatus # -1)
        /\ (pc = "chdir" => exitStatus = -1)

\* the program has exited at line 8 because dist is missing
C2_Witness ==
    rootKind = "missing" /\ pc = "exited" /\ exitStatus = 1 /\ listener = "none"

----------------------------------------------------------------------------
(* C3 *)

\* C3, as stated: the message announcing http://localhost:8000/ is on
\* standard output only when the listener on port 8000 has been bound.
C3_MessageOnlyAfterBind ==
    (\E i \in DOMAIN stdout : stdout[i] = StartupMessage) =>
        listener \in {"listening", "closed"}

----------------------------------------------------------------------------
(* C4 *)

\* C4: for every request path, traversal sequences included, the path the
\* handler resolves names nothing outside the root directory, the file it
\* opens lies under the root directory, and no body written to the client is
\* the contents or the listing of anything outside it.
C4_NothingOutsideRootIsServed ==
    \A c \in active :
        LET h == handler[c]
            resolved == RealPath(translate_path(h.directory, h.request.path))
        IN h.request.shape # "none" =>
            /\ h.directory = RootDir
            /\ resolved # NoEnt => UnderRoot(resolved)
            /\ h.opened # NoEnt => UnderRoot(h.opened)
            /\ Bodies(h) \cap OutsideContents = {}
            /\ \A b \in Bodies(h) :
                   b[1] = "listing of" => UnderRoot(Tail(b))

\* a request whose path climbs above the root with ".." segments and names a
\* file that exists outside the root has been answered, with a 404
C4_Witness ==
    \E c \in Answered :
        LET h == handler[c] IN
        /\ Len(h.request.path.segs) >= 2
        /\ h.request.path.segs[1] = ".."
        /\ h.request.path.segs[Len(h.request.path.segs)] = "secret"
        /\ Walk(<<>>, RootDir \o h.request.path.segs) \in Files
        /\ h.status = 404

----------------------------------------------------------------------------
(* C5 *)

\* C5, as stated: a GET request for the path of an existing regular file
\* under the root directory is answered with status 200 and a body identical
\* to the file's contents.
C5_ExistingFileIs200 ==
    \A c \in Answered :
        LET h == handler[c] IN
        (WellFormedGET(h.request) /\ isfile(Target(h.request))) =>
            /\ h.status = 200
            /\ Bodies(h) = {Contents(RealPath(Target(h.request)))}

\* C5, amended: a GET request for the path of an existing regular file under
\* the root directory that the server can open is answered with status 200
\* and a body identical to the file's contents, unless it carries an
\* If-Modified-Since condition (and no If-None-Match) that the file's
\* modification time satisfies: that request is answered with status 304 and
\* no body.  A file the server cannot open is answered with status 404.
C5_ExistingFileIs200Or304 ==
    \A c \in Answered :
        LET h == handler[c]
            f == RealPath(Target(h.request))
        IN (WellFormedGET(h.request) /\ isfile(Target(h.request))) =>
            /\ IF f \in unreadable
               THEN h.status = 404 /\ h.opened = NoEnt
                    /\ Bodies(h) = {ErrorPage(404, "File not found")}
               ELSE IF h.request.cond = "unmodified"
               THEN h.status = 304 /\ h.opened = f /\ Bodies(h) = {}
               ELSE /\ h.status = 200
                    /\ h.opened = f
                    /\ Bodies(h) = {Contents(f)}
                    /\ Count(h.wfile, Body(Contents(f))) = 1
                    /\ h.wfile[Len(h.wfile)] = Body(Contents(f))
            /\ HasHeaderBlock(h) => h.wfile[1].num = h.status

\* GET /a HTTP/1.0 has been answered with 200 and the bytes of dist/a
C5_Witness ==
    \E c \in Answered :
        LET h == handler[c] IN
        /\ WellFormedGET(h.request)
        /\ h.request.path = [abs |-> TRUE, segs |-> <<"a">>, slash |-> FALSE]
        /\ h.request.version = "HTTP/1.0"
        /\ h.status = 200
        /\ Bodies(h) = {Contents(RootDir \o <<"a">>)}

----------------------------------------------------------------------------
(* C6 *)

\* C6: a GET request whose path names neither a file nor a directory under
\* the root directory is answered with status 404 and an error page; and no
\* request for such a path, well-formed or not, is answered with status 200,
\* with file contents or with a listing.
C6_MissingPathIs404 ==
    \A c \in Answered :
        LET h == handler[c] IN
        (h.request.shape = "line" /\ RealPath(Target(h.request)) = NoEnt) =>
            /\ WellFormedGET(h.request) =>
                   /\ h.status = 404
                   /\ Bodies(h) = {ErrorPage(404, "File not found")}
            /\ h.status # 200
            /\ h.opened = NoEnt
            /\ \A b \in Bodies(h) : b[1] = "error page"

\* GET /secret (absent under the root, present above it) was answered 404
C6_Witness ==
    \E c \in Answered :
        LET h == handler[c] IN
        /\ WellFormedGET(h.request)
        /\ h.request.path.segs = <<"secret">>
        /\ RealPath(Target(h.request)) = NoEnt
        /\ h.status = 404

----------------------------------------------------------------------------
(* C7 *)

\* C7: when port 8000 is already bound by another process, this process never
\* has a listening socket, no connection is made to it or accepted, and once
\* the construction of the server has run the process has exited with a
\* non-zero status and its socket is closed.
C7_PortInUseFailsStartup ==
    ~portFree =>
        /\ listener \in {"none", "closed_unbound"}
        /\ nConn = 0 /\ nAccepted = 0 /\ active = {}
        /\ pc # "serving"
        /\ (pc = "exited" => exitStatus # 0 /\ exitStatus # -1)
        /\ (listener = "closed_unbound" => pc = "exited")

\* the bind failed: the program has exited with status 1, socket closed
C7_Witness ==
    /\ rootKind = "dir" /\ ~portFree
    /\ pc = "exited" /\ exitStatus = 1 /\ listener = "closed_unbound"

----------------------------------------------------------------------------
(* C8 *)

----------------------------------------------------------------------------
(* C9 *)

\* C9: wherever the extra headers are written, Cross-Origin-Opener-Policy is
\* followed at once by Cross-Origin-Embedder-Policy and that by the blank
\* line; the status line and every header of the base handler come before
\* them; the only blank line written is that one; nothing but the body
\* follows it; and no header is left unwritten in the header buffer.
C9_ExtraHeadersLastBeforeBlankLine ==
    \A c \in Answered :
        LET w == handler[c].wfile IN
        /\ handler[c].headers_buffer = <<>>
        /\ \A i \in DOMAIN w :
               /\ w[i] = OpenerPolicy =>
                      /\ i + 2 <= Len(w)
                      /\ w[i + 1] = EmbedderPolicy
                      /\ w[i + 2] = BlankLine
               /\ w[i] = EmbedderPolicy => (i > 1 /\ w[i - 1] = OpenerPolicy)
               /\ w[i] = BlankLine => (i > 2 /\ w[i - 1] = EmbedderPolicy)
               /\ (IsStatusLine(w[i]) \/ IsHeader(w[i])) =>
                      \E n \in (i + 1)..Len(w) :
                          /\ w[n] = BlankLine
                          /\ w[i] \notin {OpenerPolicy, EmbedderPolicy} => i < n - 2
               /\ \A j \in 1..(i - 1) : w[j] = BlankLine => IsBody(w[i])

\* a 200 with the base handler's five headers before the two extra ones
C9_Witness ==
    \E c \in Answered :
        LET w == handler[c].wfile IN
        /\ handler[c].status = 200
        /\ Len(w) = 10
        /\ w[6].key = "Last-Modified"
        /\ w[7] = OpenerPolicy /\ w[8] = EmbedderPolicy /\ w[9] = BlankLine
        /\ IsBody(w[10])

----------------------------------------------------------------------------
(* C10 *)

\* C10: at most one connection is being handled at any time, and the server
\* takes a connection from the listen queue only when no handler is running.
C10_OneConnectionAtATime ==
    /\ [](Cardinality(active) <= 1)
    /\ [][nAccepted' # nAccepted => active = {}]_vars

\* a connection waits in the listen queue while another is being handled
C10_Witness ==
    /\ Cardinality(active) = 1
    /\ nConn > nAccepted

====
